---------------------------- MODULE Spec2Model ----------------------------
(***************************************************************************)
(* A model of pyFunc/pointcloud_to_stl.py (PointCloudToSTLConverter).      *)
(*                                                                         *)
(* The converter is single threaded.  The external geometry primitives     *)
(* (Open3D, SciPy) are modelled by their outcomes: an action draws the     *)
(* outcome of each primitive call (a value, or an exception) with \E.      *)
(*                                                                         *)
(* Specifications:                                                         *)
(*   SpecPlanes   detect_planes called on a cloud, one action per loop     *)
(*                iteration outcome; points are identified by their index  *)
(*                in the input cloud.                                      *)
(*   SpecQuad     create_quad_mesh applied to four corners.                *)
(*   SpecMerge    _merge_meshes applied to a list of meshes.               *)
(*   SpecConvert  convert, one action per stage outcome; a point cloud is  *)
(*                represented by its point count, which is all that        *)
(*                convert, create_mesh and _reconstruct_residual_points    *)
(*                read of it.                                              *)
(*   SpecResidual _reconstruct_residual_points called on a cloud.          *)
(*   SpecSpacing  _estimate_spacing applied to a point array; coordinates  *)
(*                and distances are finite numbers in units of 1e-3, NaN   *)
(*                or +inf.                                                 *)
(***************************************************************************)
EXTENDS Integers, Sequences, FiniteSets, TLC

(***************************************************************************)
(* Bounds of the model.                                                    *)
(***************************************************************************)
\* detect_planes (SpecPlanes): size of the input cloud and of the
\* plane_config values the run is started with.
MaxPoints == 5
MaxMinPlanePoints == 3
MaxMaxPlanes == 3
\* create_quad_mesh (SpecQuad): corner coordinates are integers, x and y in
\* 0..MaxCoord and z in ZVals.
MaxCoord == 1
\* _merge_meshes (SpecMerge): length of the list of meshes.
MaxMeshes == 3
\* _merge_meshes (SpecConvert): how many vertices merge_close_vertices may
\* merge away.
MaxMergedAway == 1
\* _estimate_spacing (SpecSpacing): number of points of the array.
MaxSpacingPoints == 3

(***************************************************************************)
(* Constants of the program.                                               *)
(***************************************************************************)
DefaultMinPlanePoints == 500
DefaultMaxPlanes == 10
\* create_mesh: `if len(residual_pcd.points) > 100`
ResidualReconThreshold == 100
\* _reconstruct_residual_points: `if len(pcd.points) < 50`
ReconMinPoints == 50
\* _estimate_spacing, in units of 1e-3: the default 1e-2, the floor 1e-3 of
\* the bounding-box estimate, the divisor of the largest extent, and the
\* default sample_size.
DefaultSpacing == 10
SpacingFloor == 1
ExtentDivisor == 100
DefaultSampleSize == 5000

VARIABLES
    \* ---- detect_planes (SpecPlanes) ----
    min_plane_points,   \* self.plane_config['min_plane_points']
    max_planes,         \* self.plane_config['max_planes']
    pcd,                \* the cloud passed to detect_planes: sequence of point ids
    planes,             \* the local list `planes`
    residual_pcd,       \* the local `residual_pcd`: sequence of point ids
    i,                  \* the loop variable of `for i in range(max_planes)`
    dpc,                \* position in detect_planes: "loop" | "done"
    fits,               \* history: one record per call of segment_plane
    \* ---- create_quad_mesh (SpecQuad) ----
    corners,            \* the argument `corners`: four 3D points
    quad_mesh,          \* the value returned (NoMesh before the call)
    \* ---- _merge_meshes (SpecMerge) ----
    meshes,             \* the argument `meshes`
    merged_mesh,        \* the merged mesh before merge_close_vertices
    \* ---- convert (SpecConvert, SpecResidual); a cloud is its point count ----
    pc,                 \* position in convert / create_mesh /
                        \* _reconstruct_residual_points
    points_n,           \* len(points), the loaded points
    pcd_n,              \* len(pcd.points) after preprocess_point_cloud
    plane_counts,       \* create_mesh: inliers_count of each detected plane
    residual_n,         \* len(residual_pcd.points)
    all_meshes,         \* create_mesh: the list all_meshes
    calls,              \* history: the reconstruction primitives invoked
    residual_mesh,      \* value returned by _reconstruct_residual_points
    mesh,               \* convert: the mesh after create_mesh / postprocess,
                        \* as its vertex and triangle counts
    out_file,           \* the file at the output path: "absent" | "partial" | "complete"
    error,              \* the exception raised inside convert's try block
    result,             \* the value convert returned
    \* ---- _estimate_spacing (SpecSpacing) ----
    points,             \* the argument `points`: sequence of 3D points
    spacing,            \* the value returned (None before the call)
    spacing_path        \* the return statement taken

cfgVars == <<min_plane_points, max_planes>>
planeVars == <<pcd, planes, residual_pcd, i, dpc, fits>>
quadVars == <<corners, quad_mesh>>
mergeVars == <<meshes, merged_mesh>>
convVars == <<pc, points_n, pcd_n, plane_counts, residual_n, all_meshes, calls,
              residual_mesh, mesh, out_file, error, result>>

spacingVars == <<points, spacing, spacing_path>>

vars == <<cfgVars, planeVars, quadVars, mergeVars, convVars, spacingVars>>

\* What the actions of one specification leave alone.
exceptPlanes == <<cfgVars, quadVars, mergeVars, convVars, spacingVars>>
exceptQuad == <<cfgVars, planeVars, mergeVars, convVars, spacingVars>>
exceptMerge == <<cfgVars, planeVars, quadVars, convVars, spacingVars>>
exceptConvert == <<cfgVars, planeVars, quadVars, mergeVars, spacingVars>>
exceptSpacing == <<cfgVars, planeVars, quadVars, mergeVars, convVars>>

(***************************************************************************)
(* Helpers on sequences.                                                   *)
(***************************************************************************)
Range(s) == {s[k] : k \in DOMAIN s}

RECURSIVE SeqSum(_)
SeqSum(s) == IF s = <<>> THEN 0 ELSE Head(s) + SeqSum(Tail(s))

(***************************************************************************)
(* PointCloud.select_by_index(indices, invert): the points whose position  *)
(* is (is not, when invert) among `indices`, in the cloud's order.         *)
(* Positions are 1-based here, 0-based in the code.                        *)
(***************************************************************************)
\* (mutation: the invert flag is ignored)
SelectByIndexIgnoresInvert(cloud, indices, invert) ==
    LET picked == SelectSeq([k \in DOMAIN cloud |-> <<k, cloud[k]>>],
                            LAMBDA e : e[1] \in indices)
    IN  [k \in DOMAIN picked |-> picked[k][2]]

SelectByIndex(cloud, indices, invert) ==
    LET keep(k) == IF invert THEN k \notin indices ELSE k \in indices
        picked == SelectSeq([k \in DOMAIN cloud |-> <<k, cloud[k]>>],
                            LAMBDA e : keep(e[1]))
    IN  [k \in DOMAIN picked |-> picked[k][2]]

(***************************************************************************)
(* Meshes.  A TriangleMesh is its vertex list and its triangle list; a     *)
(* triangle is three 0-based positions in the vertex list.  None is a      *)
(* value of its own.                                                       *)
(***************************************************************************)
None == [none |-> TRUE]

Mesh(vs, ts) == [vertices |-> vs, triangles |-> ts]

\* Whether every triangle index of m is a position of its vertex list.
ValidIndices(m) ==
    \A k \in DOMAIN m.triangles : \A j \in 1..3 :
        m.triangles[k][j] >= 0 /\ m.triangles[k][j] < Len(m.vertices)

(***************************************************************************)
(* The parts of the state a specification does not use keep these values.  *)
(***************************************************************************)
IdleConfig == min_plane_points = 0 /\ max_planes = 0

IdlePlanes ==
    /\ pcd = <<>> /\ planes = <<>>
    /\ residual_pcd = <<>> /\ i = 0 /\ dpc = "idle" /\ fits = <<>>

IdleQuad == corners = <<>> /\ quad_mesh = None

IdleMerge == meshes = <<>> /\ merged_mesh = None

IdleConvert ==
    /\ pc = "idle" /\ points_n = 0 /\ pcd_n = 0 /\ plane_counts = <<>>
    /\ residual_n = 0 /\ all_meshes = <<>> /\ calls = <<>>
    /\ residual_mesh = None /\ mesh = None /\ out_file = "absent"
    /\ error = None /\ result = None

IdleSpacing == points = <<>> /\ spacing = None /\ spacing_path = "none"

(***************************************************************************)
(* detect_planes.                                                          *)
(***************************************************************************)
\* State on entry to detect_planes: planes = [], residual_pcd = pcd.
\* plane_config is a dict the caller may set; the run starts with small
\* values of min_plane_points and max_planes so that clouds of a few points
\* go through every branch of the loop.
InitPlanes ==
    /\ min_plane_points \in 1..MaxMinPlanePoints
    /\ max_planes \in 1..MaxMaxPlanes
    /\ \E n \in 0..MaxPoints : pcd = [k \in 1..n |-> k]
    /\ planes = <<>>
    /\ residual_pcd = pcd
    /\ i = 0
    /\ dpc = "loop"
    /\ fits = <<>>
    /\ IdleQuad /\ IdleMerge /\ IdleConvert /\ IdleSpacing

\* The loop test of an iteration that is entered: i in range(max_planes).
InLoop == dpc = "loop" /\ i < max_planes

\* The condition on which an iteration goes on to call segment_plane.
EnoughPoints(cloud) == Len(cloud) >= min_plane_points

\* The condition on which a fit is recorded as a plane.
\* (mutation: the inlier-count test is missing)
AcceptsAnyFit(inliers) == TRUE

AcceptsFit(inliers) == Cardinality(inliers) >= min_plane_points

\* `if len(residual_pcd.points) < min_plane_points: break`
DP_TooFewPoints ==
    /\ InLoop
    /\ ~EnoughPoints(residual_pcd)
    /\ dpc' = "done"
    /\ UNCHANGED <<pcd, planes, residual_pcd, i, fits>>
    /\ UNCHANGED exceptPlanes

\* segment_plane raises: `except Exception: ... break`
\* (mutation: the except clause goes on to the next iteration)
DP_FitThrowsContinues ==
    /\ InLoop
    /\ EnoughPoints(residual_pcd)
    /\ fits' = Append(fits, [remaining |-> Len(residual_pcd), outcome |-> "throw",
                             inliers_count |-> 0])
    /\ i' = i + 1
    /\ UNCHANGED <<pcd, planes, residual_pcd, dpc>>
    /\ UNCHANGED exceptPlanes

DP_FitThrows ==
    /\ InLoop
    /\ EnoughPoints(residual_pcd)
    /\ fits' = Append(fits, [remaining |-> Len(residual_pcd), outcome |-> "throw",
                             inliers_count |-> 0])
    /\ dpc' = "done"
    /\ UNCHANGED <<pcd, planes, residual_pcd, i>>
    /\ UNCHANGED exceptPlanes

\* segment_plane returns (plane_model, inliers) with too few inliers: break
DP_FitRejected ==
    /\ InLoop
    /\ EnoughPoints(residual_pcd)
    /\ \E inliers \in SUBSET (1..Len(residual_pcd)) :
          /\ ~AcceptsFit(inliers)
          /\ fits' = Append(fits, [remaining |-> Len(residual_pcd),
                                   outcome |-> "rejected",
                                   inliers_count |-> Cardinality(inliers)])
    /\ dpc' = "done"
    /\ UNCHANGED <<pcd, planes, residual_pcd, i>>
    /\ UNCHANGED exceptPlanes

\* segment_plane returns enough inliers: the plane is recorded and its
\* points are removed from residual_pcd.
DP_FitAccepted ==
    /\ InLoop
    /\ EnoughPoints(residual_pcd)
    /\ \E inliers \in SUBSET (1..Len(residual_pcd)) :
          /\ AcceptsFit(inliers)
          /\ planes' = Append(planes,
                              [pcd |-> SelectByIndex(residual_pcd, inliers, FALSE),
                               inliers_count |-> Cardinality(inliers)])
          /\ residual_pcd' = SelectByIndex(residual_pcd, inliers, TRUE)
          /\ fits' = Append(fits, [remaining |-> Len(residual_pcd),
                                   outcome |-> "accepted",
                                   inliers_count |-> Cardinality(inliers)])
    /\ i' = i + 1
    /\ UNCHANGED <<pcd, dpc>>
    /\ UNCHANGED exceptPlanes

\* range(max_planes) is exhausted.
DP_LoopEnd ==
    /\ dpc = "loop"
    /\ i >= max_planes
    /\ dpc' = "done"
    /\ UNCHANGED <<pcd, planes, residual_pcd, i, fits>>
    /\ UNCHANGED exceptPlanes

NextPlanes ==
    \/ DP_TooFewPoints
    \/ DP_FitThrows
    \/ DP_FitRejected
    \/ DP_FitAccepted
    \/ DP_LoopEnd

SpecPlanes == InitPlanes /\ [][NextPlanes]_vars

(***************************************************************************)
(* create_quad_mesh.                                                       *)
(***************************************************************************)
ZVals == {0, 1}

CornerPoints == {<<x, y, z>> : x \in 0..MaxCoord, y \in 0..MaxCoord, z \in ZVals}

\* The square of np.linalg.norm(p - q).  The code compares the two norms;
\* the square root is increasing, so the squares compare the same way.
NormSq(p, q) ==
    (p[1] - q[1]) * (p[1] - q[1]) + (p[2] - q[2]) * (p[2] - q[2])
        + (p[3] - q[3]) * (p[3] - q[3])

\* (mutation: the comparison of the diagonals is reversed)
CreateQuadMeshLongerDiagonal(cs) ==
    LET diag1_len == NormSq(cs[3], cs[1])
        diag2_len == NormSq(cs[4], cs[2])
    IN  IF diag1_len > diag2_len
        THEN Mesh(cs, << <<0, 1, 2>>, <<0, 2, 3>> >>)
        ELSE Mesh(cs, << <<0, 1, 3>>, <<1, 2, 3>> >>)

\* corners[0..3] of the code are cs[1..4] here.
CreateQuadMesh(cs) ==
    LET diag1_len == NormSq(cs[3], cs[1])
        diag2_len == NormSq(cs[4], cs[2])
    IN  IF diag1_len < diag2_len
        THEN Mesh(cs, << <<0, 1, 2>>, <<0, 2, 3>> >>)
        ELSE Mesh(cs, << <<0, 1, 3>>, <<1, 2, 3>> >>)

InitQuad ==
    /\ corners \in [1..4 -> CornerPoints]
    /\ quad_mesh = None
    /\ IdleConfig /\ IdlePlanes /\ IdleMerge /\ IdleConvert /\ IdleSpacing

QM_Create ==
    /\ corners # <<>>
    /\ quad_mesh = None
    /\ quad_mesh' = CreateQuadMesh(corners)
    /\ UNCHANGED <<corners, exceptQuad>>

NextQuad == QM_Create

SpecQuad == InitQuad /\ [][NextQuad]_vars

(***************************************************************************)
(* _merge_meshes, up to (not including) merge_close_vertices.              *)
(***************************************************************************)
\* The meshes the list is drawn from: vertices are named by integers.
MeshSamples ==
    { Mesh(<<>>, <<>>),
      Mesh(<<7, 8, 9>>, <<>>),
      Mesh(<<1, 2, 3>>, << <<0, 1, 2>> >>),
      Mesh(<<4, 5>>, << <<0, 0, 1>> >>),
      Mesh(<<1, 2, 3, 4>>, << <<0, 1, 2>>, <<0, 2, 3>> >>),
      Mesh(<<5, 6, 7, 8>>, << <<0, 1, 3>>, <<1, 2, 3>> >>) }

\* `triangles + vertex_offset`
Adjusted(triangles, vertex_offset) ==
    [k \in DOMAIN triangles |->
        [j \in 1..3 |-> triangles[k][j] + vertex_offset]]

\* The loop `for mesh in meshes`, from the k-th mesh on.
RECURSIVE MergeLoop(_, _, _, _, _)
MergeLoop(ms, k, all_vertices, all_triangles, vertex_offset) ==
    IF k > Len(ms)
    THEN Mesh(all_vertices, all_triangles)
    ELSE MergeLoop(ms, k + 1,
                   all_vertices \o ms[k].vertices,
                   all_triangles \o Adjusted(ms[k].triangles, vertex_offset),
                   vertex_offset + Len(ms[k].vertices))

\* (mutation: the offset is set to, not advanced by, the vertex count)
RECURSIVE MergeLoopOffsetNotSummed(_, _, _, _, _)
MergeLoopOffsetNotSummed(ms, k, all_vertices, all_triangles, vertex_offset) ==
    IF k > Len(ms)
    THEN Mesh(all_vertices, all_triangles)
    ELSE MergeLoopOffsetNotSummed(ms, k + 1,
                   all_vertices \o ms[k].vertices,
                   all_triangles \o Adjusted(ms[k].triangles, vertex_offset),
                   Len(ms[k].vertices))

MergeConcatOffsetNotSummed(ms) ==
    IF Len(ms) = 1 THEN ms[1] ELSE MergeLoopOffsetNotSummed(ms, 1, <<>>, <<>>, 0)

MergeConcat(ms) ==
    IF Len(ms) = 1 THEN ms[1] ELSE MergeLoop(ms, 1, <<>>, <<>>, 0)

InitMerge ==
    /\ meshes = <<>>
    /\ merged_mesh = None
    /\ IdleConfig /\ IdlePlanes /\ IdleQuad /\ IdleConvert /\ IdleSpacing

\* The caller builds the list.
MM_Append ==
    /\ merged_mesh = None
    /\ Len(meshes) < MaxMeshes
    /\ \E m \in MeshSamples : meshes' = Append(meshes, m)
    /\ UNCHANGED <<merged_mesh, exceptMerge>>

\* create_mesh calls _merge_meshes on a non-empty list only.
MM_Merge ==
    /\ merged_mesh = None
    /\ Len(meshes) >= 1
    /\ merged_mesh' = MergeConcat(meshes)
    /\ UNCHANGED <<meshes, exceptMerge>>

NextMerge ==
    \/ MM_Append
    \/ MM_Merge

SpecMerge == InitMerge /\ [][NextMerge]_vars

(***************************************************************************)
(* convert and the stages it calls.                                        *)
(***************************************************************************)
\* The point counts a cloud is drawn from, and the numbers of inliers a
\* plane fit may return.
PointCounts == {30, 75, 120, 520, 1100}

Min(a, b) == IF a <= b THEN a ELSE b

\* The vertex and triangle counts of a mesh.
Counts(m) == [nv |-> Len(m.vertices), nt |-> Len(m.triangles)]

InitConvert ==
    /\ min_plane_points = DefaultMinPlanePoints
    /\ max_planes = DefaultMaxPlanes
    /\ pc = "load"
    /\ points_n = 0 /\ pcd_n = 0 /\ plane_counts = <<>>
    /\ residual_n = 0 /\ all_meshes = <<>> /\ calls = <<>>
    /\ residual_mesh = None /\ mesh = None /\ out_file = "absent"
    /\ error = None /\ result = None
    /\ IdlePlanes /\ IdleQuad /\ IdleMerge /\ IdleSpacing

\* The exceptions a stage of convert can end with, other than those the
\* code raises itself: load_txt_files raises ValueError when nothing was
\* loaded; the Open3D calls raise RuntimeError; mkdir raises OSError.
StageRaises ==
    [load |-> {"ValueError"},
     preprocess |-> {"RuntimeError"},
     postprocess |-> {"RuntimeError"},
     outdir |-> {"OSError"},
     save |-> {"RuntimeError", "OSError"}]

\* `except Exception as e` of convert: the exceptions it catches.
\* (mutation: only ValueError is caught)
ConvertCatchesValueErrorOnly(kind) == kind = "ValueError"

ConvertCatches(kind) == kind \in {"ValueError", "RuntimeError", "OSError"}

\* A stage raises; control passes to convert's except clause.
CV_StageRaises ==
    /\ pc \in DOMAIN StageRaises
    /\ \E kind \in StageRaises[pc] :
          error' = [kind |-> kind, message |-> "error in " \o pc]
    /\ pc' = "except"
    /\ UNCHANGED <<points_n, pcd_n, plane_counts, residual_n, all_meshes, calls,
                   residual_mesh, mesh, out_file, result>>
    /\ UNCHANGED exceptConvert

\* load_txt_files returns the loaded points (at least one row).
CV_Load ==
    /\ pc = "load"
    /\ \E n \in PointCounts : points_n' = n
    /\ pc' = "preprocess"
    /\ UNCHANGED <<pcd_n, plane_counts, residual_n, all_meshes, calls,
                   residual_mesh, mesh, out_file, error, result>>
    /\ UNCHANGED exceptConvert

\* create_point_cloud and preprocess_point_cloud: downsampling, duplicate
\* and outlier removal leave some of the points.
CV_Preprocess ==
    /\ pc = "preprocess"
    /\ \E n \in PointCounts : n <= points_n /\ pcd_n' = n
    /\ pc' = "detect"
    /\ UNCHANGED <<points_n, plane_counts, residual_n, all_meshes, calls,
                   residual_mesh, mesh, out_file, error, result>>
    /\ UNCHANGED exceptConvert

\* detect_planes on point counts: the results (inlier counts of the planes
\* recorded, remaining count) the loop can end with from iteration `iter`.
\* A fit that raises or returns too few inliers ends the loop.
RECURSIVE DetectResults(_, _, _)
DetectResults(remaining, found, iter) ==
    IF iter >= max_planes \/ remaining < min_plane_points
    THEN {[planes |-> found, residual |-> remaining]}
    ELSE {[planes |-> found, residual |-> remaining]}
         \cup UNION { DetectResults(remaining - c, Append(found, c), iter + 1) :
                      c \in {c \in PointCounts :
                                c <= remaining /\ c >= min_plane_points} }

\* create_mesh, step 1: planes, residual_pcd = self.detect_planes(pcd)
CM_DetectPlanes ==
    /\ pc = "detect"
    /\ \E r \in DetectResults(pcd_n, <<>>, 0) :
          /\ plane_counts' = r.planes
          /\ residual_n' = r.residual
    /\ pc' = "quads"
    /\ UNCHANGED <<points_n, pcd_n, all_meshes, calls, residual_mesh, mesh,
                   out_file, error, result>>
    /\ UNCHANGED exceptConvert

\* Corners extract_plane_quad_corners may return.
CornerSamples ==
    { << <<0, 0, 0>>, <<1, 0, 0>>, <<1, 1, 0>>, <<0, 1, 0>> >>,
      << <<0, 0, 0>>, <<1, 0, 0>>, <<3, 1, 0>>, <<0, 1, 0>> >> }

\* Per plane: the quad is made, or extraction / create_quad_mesh fails and
\* nothing is appended.
QuadOutcomes ==
    {[ok |-> FALSE, corners |-> <<>>]}
        \cup {[ok |-> TRUE, corners |-> c] : c \in CornerSamples}

\* create_mesh, step 2: the loop over the planes.
CM_Quads ==
    /\ pc = "quads"
    /\ \E choice \in [DOMAIN plane_counts -> QuadOutcomes] :
          LET made == SelectSeq(choice, LAMBDA o : o.ok)
          IN  all_meshes' = [k \in DOMAIN made |-> CreateQuadMesh(made[k].corners)]
    /\ pc' = "residual"
    /\ UNCHANGED <<points_n, pcd_n, plane_counts, residual_n, calls,
                   residual_mesh, mesh, out_file, error, result>>
    /\ UNCHANGED exceptConvert

\* create_mesh, step 3: too few residual points, no reconstruction.
CM_ResidualSkip ==
    /\ pc = "residual"
    /\ ~(residual_n > ResidualReconThreshold)
    /\ pc' = "merge"
    /\ UNCHANGED <<points_n, pcd_n, plane_counts, residual_n, all_meshes, calls,
                   residual_mesh, mesh, out_file, error, result>>
    /\ UNCHANGED exceptConvert

\* create_mesh, step 3: _reconstruct_residual_points is called.
CM_ResidualCall ==
    /\ pc = "residual"
    /\ residual_n > ResidualReconThreshold
    /\ pc' = "recon"
    /\ UNCHANGED <<points_n, pcd_n, plane_counts, residual_n, all_meshes, calls,
                   residual_mesh, mesh, out_file, error, result>>
    /\ UNCHANGED exceptConvert

(***************************************************************************)
(* _reconstruct_residual_points.                                           *)
(***************************************************************************)
\* The meshes a reconstruction primitive may return.
ReconMeshes ==
    { Mesh(<<>>, <<>>),
      Mesh(<<1, 2, 3>>, <<>>),
      Mesh(<<1, 2, 3>>, << <<0, 1, 2>> >>),
      Mesh(<<1, 2, 3, 4>>, << <<0, 1, 2>>, <<1, 2, 3>> >>) }

\* A primitive raises, or returns a mesh.
PrimitiveOutcomes ==
    {[threw |-> TRUE, mesh |-> None]}
        \cup {[threw |-> FALSE, mesh |-> m] : m \in ReconMeshes}

\* `if len(mesh.triangles) > 0`
\* (mutation: a mesh of one triangle is not accepted)
AcceptedOffByOne(m) == Len(m.triangles) > 1

Accepted(m) == Len(m.triangles) > 0

\* mesh.crop(box): the vertices inside the box (those at the 0-based
\* positions `kept`) and the triangles whose corners are all kept,
\* reindexed.
Crop(m, kept) ==
    LET keptSeq == SelectSeq([k \in DOMAIN m.vertices |-> k - 1],
                             LAMBDA v : v \in kept)
        newIndex(v) == Cardinality({u \in kept : u < v})
        inside == SelectSeq(m.triangles,
                            LAMBDA t : {t[1], t[2], t[3]} \subseteq kept)
    IN  Mesh([k \in DOMAIN keptSeq |-> m.vertices[keptSeq[k] + 1]],
             [k \in DOMAIN inside |-> [j \in 1..3 |-> newIndex(inside[k][j])]])

\* crop raises, or returns the cropped mesh.
CropOutcomes(m) ==
    {[threw |-> TRUE, mesh |-> None]}
        \cup {[threw |-> FALSE, mesh |-> Crop(m, kept)] :
                kept \in SUBSET (0..(Len(m.vertices) - 1))}

CallRecord(name, o) ==
    [name |-> name, threw |-> o.threw,
     triangles |-> IF o.threw THEN 0 ELSE Len(o.mesh.triangles)]

\* Entry: `if len(pcd.points) < 50: return None`, else the spacing is
\* estimated and the chain starts.
RR_Entry ==
    /\ pc = "recon"
    /\ IF residual_n < ReconMinPoints
       THEN pc' = "recon_ret" /\ residual_mesh' = None
       ELSE pc' = "alpha" /\ UNCHANGED residual_mesh
    /\ UNCHANGED <<points_n, pcd_n, plane_counts, residual_n, all_meshes, calls,
                   mesh, out_file, error, result>>
    /\ UNCHANGED exceptConvert

\* create_from_point_cloud_alpha_shape
RR_Alpha ==
    /\ pc = "alpha"
    /\ \E o \in PrimitiveOutcomes :
          /\ calls' = Append(calls, CallRecord("alpha", o))
          /\ IF ~o.threw /\ Accepted(o.mesh)
             THEN pc' = "recon_ret" /\ residual_mesh' = o.mesh
             ELSE pc' = "ball" /\ UNCHANGED residual_mesh
    /\ UNCHANGED <<points_n, pcd_n, plane_counts, residual_n, all_meshes,
                   mesh, out_file, error, result>>
    /\ UNCHANGED exceptConvert

\* create_from_point_cloud_ball_pivoting
RR_Ball ==
    /\ pc = "ball"
    /\ \E o \in PrimitiveOutcomes :
          /\ calls' = Append(calls, CallRecord("ball", o))
          /\ IF ~o.threw /\ Accepted(o.mesh)
             THEN pc' = "recon_ret" /\ residual_mesh' = o.mesh
             ELSE pc' = "poisson" /\ UNCHANGED residual_mesh
    /\ UNCHANGED <<points_n, pcd_n, plane_counts, residual_n, all_meshes,
                   mesh, out_file, error, result>>
    /\ UNCHANGED exceptConvert

\* create_from_point_cloud_poisson, then the crop to the scaled bounding
\* box; the cropped mesh is returned as it is.
RR_Poisson ==
    /\ pc = "poisson"
    /\ \E o \in PrimitiveOutcomes :
          /\ calls' = Append(calls, CallRecord("poisson", o))
          /\ IF ~o.threw /\ Accepted(o.mesh)
             THEN \E c \in CropOutcomes(o.mesh) :
                     residual_mesh' = IF c.threw THEN None ELSE c.mesh
             ELSE residual_mesh' = None
    /\ pc' = "recon_ret"
    /\ UNCHANGED <<points_n, pcd_n, plane_counts, residual_n, all_meshes,
                   mesh, out_file, error, result>>
    /\ UNCHANGED exceptConvert

(***************************************************************************)
(* create_mesh, continued.                                                 *)
(***************************************************************************)
\* `if residual_mesh is not None: all_meshes.append(residual_mesh)`
CM_ResidualReturn ==
    /\ pc = "recon_ret"
    /\ all_meshes' = IF residual_mesh # None
                     THEN Append(all_meshes, residual_mesh)
                     ELSE all_meshes
    /\ pc' = "merge"
    /\ UNCHANGED <<points_n, pcd_n, plane_counts, residual_n, calls,
                   residual_mesh, mesh, out_file, error, result>>
    /\ UNCHANGED exceptConvert

\* `if not all_meshes: raise ValueError(...)`
CM_NoMeshes ==
    /\ pc = "merge"
    /\ all_meshes = <<>>
    /\ error' = [kind |-> "ValueError", message |-> "no valid mesh"]
    /\ pc' = "except"
    /\ UNCHANGED <<points_n, pcd_n, plane_counts, residual_n, all_meshes, calls,
                   residual_mesh, mesh, out_file, result>>
    /\ UNCHANGED exceptConvert

\* create_mesh, step 4: _merge_meshes.  A single mesh is returned as it
\* is; otherwise merge_close_vertices merges some vertices of the
\* concatenation.
CM_Merge ==
    /\ pc = "merge"
    /\ all_meshes # <<>>
    /\ LET m == Counts(MergeConcat(all_meshes))
       IN  IF Len(all_meshes) = 1
           THEN mesh' = m
           ELSE \E r \in 0..MaxMergedAway :
                   /\ r < m.nv \/ r = 0
                   /\ mesh' = [m EXCEPT !.nv = m.nv - r]
    /\ pc' = "postprocess"
    /\ UNCHANGED <<points_n, pcd_n, plane_counts, residual_n, all_meshes, calls,
                   residual_mesh, out_file, error, result>>
    /\ UNCHANGED exceptConvert

\* postprocess_mesh: duplicate, degenerate and non-manifold triangles and
\* all but the largest component are removed; unreferenced vertices may
\* be removed.
CV_Postprocess ==
    /\ pc = "postprocess"
    /\ \E nt \in 0..mesh.nt : \E nv \in {mesh.nv, Min(mesh.nv, 3 * nt)} :
          mesh' = [nv |-> nv, nt |-> nt]
    /\ pc' = "outdir"
    /\ UNCHANGED <<points_n, pcd_n, plane_counts, residual_n, all_meshes, calls,
                   residual_mesh, out_file, error, result>>
    /\ UNCHANGED exceptConvert

\* convert, step 6: the output directory and path.
CV_OutDir ==
    /\ pc = "outdir"
    /\ pc' = "save"
    /\ UNCHANGED <<points_n, pcd_n, plane_counts, residual_n, all_meshes, calls,
                   residual_mesh, mesh, out_file, error, result>>
    /\ UNCHANGED exceptConvert

\* save_stl: write_triangle_mesh returns True; convert returns the
\* success record.
CV_SaveReturns ==
    /\ pc = "save"
    /\ out_file' = "complete"
    /\ result' = [success |-> TRUE,
                  output_path |-> "out_path",
                  original_points |-> points_n,
                  final_triangles |-> mesh.nt,
                  final_vertices |-> mesh.nv]
    /\ pc' = "done"
    /\ UNCHANGED <<points_n, pcd_n, plane_counts, residual_n, all_meshes, calls,
                   residual_mesh, mesh, error>>
    /\ UNCHANGED exceptConvert

\* save_stl: write_triangle_mesh returns False, having written nothing or
\* part of the file; save_stl raises ValueError and removes nothing.
CV_SaveWriteFails ==
    /\ pc = "save"
    /\ \E f \in {out_file, "partial"} : out_file' = f
    /\ error' = [kind |-> "ValueError", message |-> "cannot save STL file"]
    /\ pc' = "except"
    /\ UNCHANGED <<points_n, pcd_n, plane_counts, residual_n, all_meshes, calls,
                   residual_mesh, mesh, result>>
    /\ UNCHANGED exceptConvert

\* convert's except clause: the failure record, or the exception leaves
\* convert.
CV_Except ==
    /\ pc = "except"
    /\ IF ConvertCatches(error.kind)
       THEN /\ result' = [success |-> FALSE, error |-> error.message]
            /\ pc' = "done"
       ELSE /\ pc' = "propagated"
            /\ UNCHANGED result
    /\ UNCHANGED <<points_n, pcd_n, plane_counts, residual_n, all_meshes, calls,
                   residual_mesh, mesh, out_file, error>>
    /\ UNCHANGED exceptConvert

NextResidual ==
    \/ RR_Entry
    \/ RR_Alpha
    \/ RR_Ball
    \/ RR_Poisson

NextConvert ==
    \/ CV_Load
    \/ CV_Preprocess
    \/ CV_StageRaises
    \/ CM_DetectPlanes
    \/ CM_Quads
    \/ CM_ResidualSkip
    \/ CM_ResidualCall
    \/ NextResidual
    \/ CM_ResidualReturn
    \/ CM_NoMeshes
    \/ CM_Merge
    \/ CV_Postprocess
    \/ CV_OutDir
    \/ CV_SaveReturns
    \/ CV_SaveWriteFails
    \/ CV_Except

SpecConvert == InitConvert /\ [][NextConvert]_vars

\* _reconstruct_residual_points called on a cloud of any size.
ResidualCounts == {30, 49, 50, 60, 120, 580}

InitResidual ==
    /\ IdleConfig /\ IdlePlanes /\ IdleQuad /\ IdleMerge /\ IdleSpacing
    /\ pc = "recon"
    /\ residual_n \in ResidualCounts
    /\ points_n = 0 /\ pcd_n = 0 /\ plane_counts = <<>>
    /\ all_meshes = <<>> /\ calls = <<>>
    /\ residual_mesh = None /\ mesh = None /\ out_file = "absent"
    /\ error = None /\ result = None

SpecResidual == InitResidual /\ [][NextResidual]_vars

(***************************************************************************)
(* _estimate_spacing.  A float is a finite number (an integer count of     *)
(* units of 1e-3), NaN or +inf.                                            *)
(***************************************************************************)
Fin(v) == [k |-> "fin", v |-> v]
NaN == [k |-> "nan", v |-> 0]
PInf == [k |-> "inf", v |-> 0]

\* np.isfinite
IsFinite(x) == x.k = "fin"

\* The comparison a > b of floats: False when either is NaN.
Gt(a, b) ==
    IF a.k = "nan" \/ b.k = "nan" THEN FALSE
    ELSE IF a.k = "inf" THEN b.k # "inf"
    ELSE IF b.k = "inf" THEN FALSE
    ELSE a.v > b.v

\* Python's max(a, b): a, unless b > a.
PyMax(a, b) == IF Gt(b, a) THEN b ELSE a

\* np.max and np.min of a non-empty sequence: NaN when any element is.
NpMax(xs) ==
    IF \E j \in DOMAIN xs : xs[j].k = "nan" THEN NaN
    ELSE IF \E j \in DOMAIN xs : xs[j].k = "inf" THEN PInf
    ELSE Fin(CHOOSE v \in {xs[j].v : j \in DOMAIN xs} :
                \A j \in DOMAIN xs : xs[j].v <= v)

NpMin(xs) ==
    IF \E j \in DOMAIN xs : xs[j].k = "nan" THEN NaN
    ELSE IF \A j \in DOMAIN xs : xs[j].k = "inf" THEN PInf
    ELSE Fin(CHOOSE v \in {xs[j].v : j \in {h \in DOMAIN xs : xs[h].k = "fin"}} :
                \A j \in DOMAIN xs : xs[j].k = "fin" => v <= xs[j].v)

\* a - b for a >= b: inf - inf is NaN.
Sub(a, b) ==
    IF a.k = "nan" \/ b.k = "nan" THEN NaN
    ELSE IF a.k = "inf" THEN (IF b.k = "inf" THEN NaN ELSE PInf)
    ELSE Fin(a.v - b.v)

\* x / n for an integer n > 0, rounded down to the unit.
DivInt(x, n) == IF x.k = "fin" THEN Fin(x.v \div n) ELSE x

\* np.ptp(points, axis=0): per axis, the maximum minus the minimum.
Ptp(pts) ==
    [a \in 1..3 |->
        LET col == [j \in DOMAIN pts |-> pts[j][a]]
        IN  Sub(NpMax(col), NpMin(col))]

\* The cube root of v, rounded down; it is at most hi.
ICbrt(v, hi) ==
    CHOOSE r \in 0..hi : r * r * r <= v /\ (r + 1) * (r + 1) * (r + 1) > v

\* np.cbrt(np.prod(bb) / n) for bb > 0 on every axis, in units of 1e-3:
\* the product is in cubed units.
CbrtVolumePerPoint(bb, n) ==
    IF \E a \in 1..3 : bb[a].k = "inf" THEN PInf
    ELSE Fin(ICbrt((bb[1].v * bb[2].v * bb[3].v) \div n, NpMax(bb).v))

\* The except branch: the bounding-box estimate on the argument `points`.
BoundingBoxEstimate(pts) ==
    LET bb == Ptp(pts)
        n == IF Len(pts) > 1 THEN Len(pts) ELSE 1
        approx == IF \A a \in 1..3 : Gt(bb[a], Fin(0))
                  THEN CbrtVolumePerPoint(bb, n)
                  ELSE PyMax(DivInt(NpMax(bb), ExtentDivisor), Fin(DefaultSpacing))
    IN  PyMax(approx, Fin(SpacingFloor))

\* `pts = pts[np.isfinite(pts).all(axis=1)]`
FiniteRows(pts) == SelectSeq(pts, LAMBDA p : \A a \in 1..3 : IsFinite(p[a]))

\* `nn = nn[np.isfinite(nn) & (nn > 0)]`
ValidDistances(nn) == SelectSeq(nn, LAMBDA d : IsFinite(d) /\ Gt(d, Fin(0)))

\* np.median of a non-empty sequence of finite numbers: the middle element
\* of the sorted sequence, or the mean of the two middle ones.
Median(xs) ==
    LET sorted == SortSeq(xs, LAMBDA x, y : x.v < y.v)
        n == Len(sorted)
    IN  IF n % 2 = 1 THEN sorted[(n + 1) \div 2]
        ELSE Fin((sorted[n \div 2].v + sorted[n \div 2 + 1].v) \div 2)

\* The distances tree.query may report for one sample point.
DistanceVals == {Fin(0), Fin(1), Fin(4), PInf}

\* The arrays the estimate is drawn for.
PointSamples ==
    { <<Fin(0), Fin(0), Fin(0)>>,
      <<Fin(100), Fin(0), Fin(0)>>,
      <<Fin(100), Fin(200), Fin(300)>>,
      <<Fin(800), Fin(800), Fin(800)>>,
      <<NaN, Fin(0), Fin(0)>>,
      <<PInf, Fin(100), Fin(100)>> }

\* The values _estimate_spacing can return for `pts`, with the return
\* statement taken: the neighbour query (cKDTree and tree.query on the
\* finite rows) either raises or reports one distance per sample point.
EstimateSpacingResults(pts) ==
    IF Len(pts) < 2
    THEN {[path |-> "few", value |-> Fin(DefaultSpacing)]}
    ELSE LET finite == FiniteRows(pts)
             m == Min(DefaultSampleSize, Len(finite))
         IN  IF Len(finite) < 2
             THEN {[path |-> "few", value |-> Fin(DefaultSpacing)]}
             ELSE {[path |-> "bbox", value |-> BoundingBoxEstimate(pts)]}
                  \cup { LET nn == ValidDistances(dists)
                         IN  IF nn = <<>>
                             THEN [path |-> "novalid", value |-> Fin(DefaultSpacing)]
                             ELSE [path |-> "median", value |-> Median(nn)] :
                         dists \in [1..m -> DistanceVals] }

InitSpacing ==
    /\ \E n \in 0..MaxSpacingPoints : points \in [1..n -> PointSamples]
    /\ spacing = None
    /\ spacing_path = "none"
    /\ IdleConfig /\ IdlePlanes /\ IdleQuad /\ IdleMerge /\ IdleConvert

SE_EstimateSpacing ==
    /\ spacing_path = "none"
    /\ \E r \in EstimateSpacingResults(points) :
          /\ spacing' = r.value
          /\ spacing_path' = r.path
    /\ UNCHANGED <<points, exceptSpacing>>

NextSpacing == SE_EstimateSpacing

SpecSpacing == InitSpacing /\ [][NextSpacing]_vars

(***************************************************************************)
(* Claims about detect_planes (SpecPlanes).                                *)
(***************************************************************************)
PlanePoints(k) == Range(planes[k].pcd)

\* C1: after every loop iteration and at return, the inlier sets of the
\* planes recorded so far are pairwise disjoint, and together with the
\* remaining set they make up the input cloud exactly: no point is lost and
\* none appears twice.
C1_Partition ==
    /\ \A a, b \in DOMAIN planes : a # b => PlanePoints(a) \cap PlanePoints(b) = {}
    /\ \A a \in DOMAIN planes : PlanePoints(a) \cap Range(residual_pcd) = {}
    /\ UNION {PlanePoints(k) : k \in DOMAIN planes} \cup Range(residual_pcd) = Range(pcd)
    /\ SeqSum([k \in DOMAIN planes |-> Len(planes[k].pcd)]) + Len(residual_pcd) = Len(pcd)

C1_Witness ==
    /\ dpc = "done"
    /\ Len(planes) >= 2
    /\ Len(residual_pcd) >= 1

\* C2: every recorded plane has at least min_plane_points inliers; a fit
\* with fewer inliers is not recorded and is the last fit of the run; no fit
\* is attempted on a remaining set of fewer than min_plane_points points.
C2_MinInliers ==
    /\ \A k \in DOMAIN planes :
          /\ planes[k].inliers_count >= min_plane_points
          /\ Len(planes[k].pcd) = planes[k].inliers_count
    /\ \A k \in DOMAIN fits :
          /\ fits[k].remaining >= min_plane_points
          /\ fits[k].outcome = "accepted" => fits[k].inliers_count >= min_plane_points
          /\ fits[k].outcome = "rejected" =>
                /\ fits[k].inliers_count < min_plane_points
                /\ k = Len(fits)
                /\ dpc = "done"
    /\ Len(planes) = Cardinality({k \in DOMAIN fits : fits[k].outcome = "accepted"})

C2_Witness ==
    /\ dpc = "done"
    /\ Len(planes) >= 1
    /\ i < max_planes
    /\ Len(residual_pcd) >= min_plane_points
    /\ fits[Len(fits)].outcome = "rejected"

\* A step in which segment_plane is called and raises.
FitThrowsStep ==
    /\ Len(fits') = Len(fits) + 1
    /\ fits'[Len(fits')].outcome = "throw"

\* C11: when the plane fit raises in an iteration, detect_planes leaves the
\* loop at that iteration and returns: the planes recorded before and the
\* remaining set as it was at the start of the iteration are what it
\* returns, and no fit is attempted afterwards.
C11_ThrowKeepsPartial ==
    /\ [][FitThrowsStep =>
            /\ dpc' = "done"
            /\ planes' = planes
            /\ residual_pcd' = residual_pcd
            /\ fits'[Len(fits')].remaining = Len(residual_pcd)]_vars
    /\ [][dpc = "done" =>
            /\ dpc' = "done"
            /\ fits' = fits
            /\ planes' = planes
            /\ residual_pcd' = residual_pcd]_vars
    /\ [](\A k \in DOMAIN fits :
            fits[k].outcome = "throw" => (k = Len(fits) /\ dpc = "done"))

C11_Witness ==
    /\ dpc = "done"
    /\ fits # <<>>
    /\ fits[Len(fits)].outcome = "throw"
    /\ Len(fits) >= 2
    /\ Len(planes) = Len(fits) - 1
    /\ Len(residual_pcd) >= min_plane_points

(***************************************************************************)
(* Claims about _merge_meshes (SpecMerge).                                 *)
(***************************************************************************)
\* The number of vertices (of triangles) of the meshes before the a-th.
VerticesBefore(a) == SeqSum([b \in 1..(a - 1) |-> Len(meshes[b].vertices)])
TrianglesBefore(a) == SeqSum([b \in 1..(a - 1) |-> Len(meshes[b].triangles)])

\* C8: for a list of two or more meshes, the merged mesh before vertex
\* deduplication has the sum of the vertex counts and the sum of the
\* triangle counts; the triangles of each mesh appear in order, shifted by
\* the number of vertices of the meshes before it; and every index is below
\* the merged vertex count when the inputs' indices were valid.
C8_MergeCounts ==
    (merged_mesh # None /\ Len(meshes) >= 2) =>
        /\ Len(merged_mesh.vertices) = VerticesBefore(Len(meshes) + 1)
        /\ Len(merged_mesh.triangles) = TrianglesBefore(Len(meshes) + 1)
        /\ \A a \in DOMAIN meshes :
              /\ \A k \in DOMAIN meshes[a].triangles : \A j \in 1..3 :
                    merged_mesh.triangles[TrianglesBefore(a) + k][j]
                        = meshes[a].triangles[k][j] + VerticesBefore(a)
              /\ \A k \in DOMAIN meshes[a].vertices :
                    merged_mesh.vertices[VerticesBefore(a) + k] = meshes[a].vertices[k]
        /\ (\A a \in DOMAIN meshes : ValidIndices(meshes[a])) => ValidIndices(merged_mesh)

C8_Witness ==
    /\ merged_mesh # None
    /\ Len(meshes) >= 3
    /\ Len(meshes[1].vertices) > 0
    /\ Len(meshes[2].vertices) > 0
    /\ Len(meshes[3].triangles) = 2

(***************************************************************************)
(* Claims about create_quad_mesh (SpecQuad).                               *)
(***************************************************************************)
TriangleCorners(t) == {t[1], t[2], t[3]}

\* The corners the two triangles of the quad have in common.
SharedCorners == TriangleCorners(quad_mesh.triangles[1])
                     \cap TriangleCorners(quad_mesh.triangles[2])

\* C9: the quad has exactly 2 triangles with indices in {0,1,2,3}, and the
\* edge the two share is the diagonal 0-2 or 1-3 that is not the longer one.
C9_ShorterDiagonal ==
    quad_mesh # None =>
        /\ Len(quad_mesh.triangles) = 2
        /\ quad_mesh.vertices = corners
        /\ \A k \in 1..2 :
              /\ TriangleCorners(quad_mesh.triangles[k]) \subseteq {0, 1, 2, 3}
              /\ Cardinality(TriangleCorners(quad_mesh.triangles[k])) = 3
        /\ SharedCorners \in {{0, 2}, {1, 3}}
        /\ SharedCorners = {0, 2} =>
              NormSq(corners[3], corners[1]) <= NormSq(corners[4], corners[2])
        /\ SharedCorners = {1, 3} =>
              NormSq(corners[4], corners[2]) <= NormSq(corners[3], corners[1])

C9_Witness ==
    /\ quad_mesh # None
    /\ NormSq(corners[3], corners[1]) < NormSq(corners[4], corners[2])
    /\ SharedCorners = {0, 2}

(***************************************************************************)
(* Claims about convert (SpecConvert).                                     *)
(***************************************************************************)
\* The number of plane quads in all_meshes once convert has returned: the
\* residual mesh, when there is one, is the last element.
QuadsProduced == Len(all_meshes) - (IF residual_mesh # None THEN 1 ELSE 0)

ResidualHasNoTriangles ==
    residual_mesh = None \/ Len(residual_mesh.triangles) = 0

\* C3: when no plane quad is produced and the residual reconstruction
\* contributes no triangles, convert returns a failure record (never a
\* success record for a mesh without triangles).
C3_TotalFailureReported ==
    (pc = "done" /\ QuadsProduced = 0 /\ ResidualHasNoTriangles)
        => result.success = FALSE

\* C4: when convert returns a failure record, no file exists at the output
\* path.
C4_NoFileOnFailure ==
    (pc = "done" /\ result.success = FALSE) => out_file = "absent"

CountFields == {"original_points", "final_triangles", "final_vertices"}

C7_ResidualMeshNonEmpty ==
    /\ residual_mesh # None => Len(residual_mesh.triangles) > 0
    /\ \A k \in DOMAIN all_meshes : Len(all_meshes[k].triangles) > 0
    /\ (/\ pc = "recon_ret"
        /\ Len(calls) = 3
        /\ \A k \in DOMAIN calls : calls[k].threw \/ calls[k].triangles = 0)
          => residual_mesh = None

(***************************************************************************)
(* Claims about _reconstruct_residual_points (SpecResidual).               *)
(***************************************************************************)
ChainOrder == <<"alpha", "ball", "poisson">>

\* C6: the primitives are invoked in the order alpha-shape, ball-pivoting,
\* Poisson, each at most once; a primitive is invoked only if every earlier
\* one raised or returned no triangles; after one returns triangles none is
\* invoked.
C6_PriorityOrder ==
    /\ Len(calls) <= Len(ChainOrder)
    /\ \A k \in DOMAIN calls :
          /\ calls[k].name = ChainOrder[k]
          /\ k < Len(calls) => (calls[k].threw \/ calls[k].triangles = 0)
          /\ (~calls[k].threw /\ calls[k].triangles > 0) =>
                (k = Len(calls) /\ pc = "recon_ret")

C6_Witness ==
    /\ pc = "recon_ret"
    /\ Len(calls) = 2
    /\ calls[1].threw
    /\ calls[2].triangles > 0
    /\ residual_mesh # None

(***************************************************************************)
(* Claims about _estimate_spacing (SpecSpacing).                           *)
(***************************************************************************)
\* C10: on every return path the value returned is finite and greater
\* than zero.
C10_SpacingPositiveFinite ==
    spacing_path # "none" => (IsFinite(spacing) /\ spacing.v > 0)

=============================================================================
